---- MODULE Spec2Model ----
(***************************************************************************)
(* Validation-and-repair pipeline of agents/validator.py together with the *)
(* Oracle client of agents/code_generator.py.                              *)
(*                                                                         *)
(* A generated artifact is a sequence of tokens (fence markers, language   *)
(* tags, single whitespace characters, prose, code).  Code is a syntax     *)
(* tree in the shape Python's ast module gives it; dotted module names are *)
(* kept as their sequence of '.'-separated segments.                       *)
(***************************************************************************)
EXTENDS Integers, Sequences, FiniteSets, TLC

\* ------------------------------------------------------------------------
\* Bounds of the model
\* ------------------------------------------------------------------------
\* the size of a generated program: its number of statements plus the
\* deepest nesting of its expressions (a bare name or a literal nests 0 deep)
MaxSize == 3
\* most repair rounds the model follows the recursion for
MaxRounds == 2

\* ------------------------------------------------------------------------
\* Forbidden rules
\* ------------------------------------------------------------------------
FORBIDDEN_NAMES ==
    {"eval", "exec", "open", "compile", "__import__", "globals", "locals", "vars"}

FORBIDDEN_MODULES ==
    {"os", "sys", "subprocess", "importlib", "pathlib", "shutil", "socket",
     "requests", "http", "urllib", "ftplib", "paramiko", "psutil"}

\* mutant: the forbidden names are left out of the forbidden strings
FORBIDDEN_STRINGS_modules == FORBIDDEN_MODULES

FORBIDDEN_STRINGS == FORBIDDEN_NAMES \cup FORBIDDEN_MODULES

FORBIDDEN_ATTRS == {"system", "popen", "run", "remove", "unlink"}

\* ------------------------------------------------------------------------
\* Syntax trees
\* ------------------------------------------------------------------------
Name(id) == [kind |-> "Name", id |-> id]
Constant(type, value) == [kind |-> "Constant", type |-> type, value |-> value]
Attribute(value, attr) == [kind |-> "Attribute", value |-> value, attr |-> attr]
Call(func, args) == [kind |-> "Call", func |-> func, args |-> args]
Expr(value) == [kind |-> "Expr", value |-> value]
Return == [kind |-> "Return"]
alias(name, asname) == [kind |-> "alias", name |-> name, asname |-> asname]
Import(names) == [kind |-> "Import", names |-> names]
\* module = <<>> stands for None (from . import y)
ImportFrom(module, names, level) ==
    [kind |-> "ImportFrom", module |-> module, names |-> names, level |-> level]
Module(body) == [kind |-> "Module", body |-> body]

\* the child nodes of a node, in the order ast.iter_fields yields them
Children(node) ==
    CASE node.kind = "Module" -> node.body
      [] node.kind = "Expr" -> <<node.value>>
      [] node.kind = "Import" -> node.names
      [] node.kind = "ImportFrom" -> node.names
      [] node.kind = "Attribute" -> <<node.value>>
      [] node.kind = "Call" -> <<node.func>> \o node.args
      [] OTHER -> <<>>

\* ------------------------------------------------------------------------
\* Exceptions.  NoExc: the call returned.
\* ------------------------------------------------------------------------
NoExc == <<>>
UnsafeCodeError(msg, detail) == <<"UnsafeCodeError", msg, detail>>

\* name.split('.')[0]
Root(name) == name[1]

RECURSIVE visit(_)
RECURSIVE generic_visit_from(_, _)

RECURSIVE generic_visit_from_last(_, _)
\* mutant: every child is visited and the last exception raised is reported
generic_visit_from_last(children, i) ==
    IF i > Len(children) THEN NoExc
    ELSE LET e == visit(children[i])
             rest == generic_visit_from_last(children, i + 1)
         IN  IF rest # NoExc THEN rest ELSE e

\* ast.NodeVisitor.generic_visit: visit the children in order; the first
\* exception raised ends the traversal
generic_visit_from(children, i) ==
    IF i > Len(children) THEN NoExc
    ELSE LET e == visit(children[i])
         IN  IF e # NoExc THEN e ELSE generic_visit_from(children, i + 1)

generic_visit(node) == generic_visit_from(Children(node), 1)

RECURSIVE ImportAliases(_, _)
\* the for loop of visit_Import over node.names
ImportAliases(names, i) ==
    IF i > Len(names) THEN NoExc
    ELSE IF Root(names[i].name) \in FORBIDDEN_MODULES
         THEN UnsafeCodeError("Import of forbidden module", names[i].name)
         ELSE ImportAliases(names, i + 1)

visit_Import(node) ==
    LET e == ImportAliases(node.names, 1)
    IN  IF e # NoExc THEN e ELSE generic_visit(node)

visit_ImportFrom(node) ==
    IF node.module # <<>> /\ Root(node.module) \in FORBIDDEN_MODULES
    THEN UnsafeCodeError("Import from forbidden module", node.module)
    ELSE generic_visit(node)

\* mutant: __builtins__ is not checked
visit_Name_builtins(node) ==
    IF node.id \in FORBIDDEN_NAMES
    THEN UnsafeCodeError("Forbidden name", <<node.id>>)
    ELSE generic_visit(node)

visit_Name(node) ==
    IF node.id \in FORBIDDEN_NAMES
    THEN UnsafeCodeError("Forbidden name", <<node.id>>)
    ELSE IF node.id = "__builtins__"
         THEN UnsafeCodeError("Access to __builtins__ is forbidden", <<>>)
         ELSE generic_visit(node)

\* mutant: only the receiver is checked, not the attribute
visit_Attribute_receiver(node) ==
    IF node.value.kind = "Name" /\ node.value.id \in FORBIDDEN_MODULES
    THEN UnsafeCodeError("Forbidden module attribute access",
                         <<node.value.id, node.attr>>)
    ELSE generic_visit(node)

visit_Attribute(node) ==
    IF node.value.kind = "Name"
    THEN LET module == node.value.id
             attr == node.attr
         IN  IF module \in FORBIDDEN_MODULES
             THEN UnsafeCodeError("Forbidden module attribute access", <<module, attr>>)
             ELSE IF attr \in FORBIDDEN_ATTRS
                  THEN UnsafeCodeError("Forbidden attribute/function access",
                                       <<module, attr>>)
                  ELSE generic_visit(node)
    ELSE generic_visit(node)

visit_Call(node) ==
    IF node.func.kind = "Attribute" /\ node.func.value.kind = "Name"
    THEN LET module == node.func.value.id
             attr == node.func.attr
         IN  IF module = "importlib"
             THEN UnsafeCodeError("Dynamic imports via importlib are forbidden", <<>>)
             ELSE IF module \in FORBIDDEN_MODULES
                  THEN UnsafeCodeError("Forbidden module call", <<module, attr>>)
                  ELSE IF attr \in FORBIDDEN_ATTRS
                       THEN UnsafeCodeError("Forbidden attribute/function call",
                                            <<module, attr>>)
                       ELSE generic_visit(node)
    ELSE generic_visit(node)

visit_Constant(node) ==
    IF node.type = "str" /\ node.value \in FORBIDDEN_STRINGS
    THEN UnsafeCodeError("Forbidden string literal", <<node.value>>)
    ELSE generic_visit(node)

\* ast.NodeVisitor.visit: dispatch on the node's class
visit(node) ==
    CASE node.kind = "Import" -> visit_Import(node)
      [] node.kind = "ImportFrom" -> visit_ImportFrom(node)
      [] node.kind = "Name" -> visit_Name(node)
      [] node.kind = "Attribute" -> visit_Attribute(node)
      [] node.kind = "Call" -> visit_Call(node)
      [] node.kind = "Constant" -> visit_Constant(node)
      [] OTHER -> generic_visit(node)

\* ast.parse / compile raise SyntaxError
SyntaxError == <<"SyntaxError">>

\* ------------------------------------------------------------------------
\* Text.  A text is a sequence of tokens.
\* ------------------------------------------------------------------------
\* the fence marker ```
FENCE == [t |-> "fence"]
\* a word directly after a fence marker (the language tag)
Word(w) == [t |-> "word", w |-> w]
\* one whitespace character
WS(c) == [t |-> "ws", c |-> c]
\* natural-language text: no fence marker in it, not Python
Prose(s) == [t |-> "prose", s |-> s]
\* a stretch of source text.  wellformed: whether it is syntactically valid
\* Python; body: the statements it parses to; markers: which of the
\* substrings the domain check looks for occur in it (in a comment, say);
\* ruff: what `ruff check --quiet` exits with and prints for it
Source(wellformed, body, markers, ruff) ==
    [t |-> "code", wellformed |-> wellformed, body |-> body, markers |-> markers,
     ruff |-> ruff]

\* s in code
Occurs(s, code) ==
    \E i \in 1..Len(code) : code[i].t = "code" /\ s \in code[i].markers

Last(seq) == seq[Len(seq)]

RECURSIVE Bodies(_, _)
\* the statements of the code tokens of a text from token i on, in order
Bodies(code, i) ==
    IF i > Len(code) THEN <<>>
    ELSE (IF code[i].t = "code" THEN code[i].body ELSE <<>>) \o Bodies(code, i + 1)

\* ast.parse(code), [tree, exc]: the Module, or SyntaxError.  Whitespace-only
\* text is the empty module; a first statement that does not start its line
\* is an IndentationError (a SyntaxError); prose and malformed code do not
\* parse.
parse(code) ==
    LET solid == {i \in 1..Len(code) : code[i].t # "ws"}
    IN  IF solid = {} THEN [tree |-> Module(<<>>), exc |-> NoExc]
        ELSE LET first == CHOOSE i \in solid : \A j \in solid : i <= j
             IN  IF \/ first > 1 /\ code[first - 1].c # "\n"
                    \/ \E i \in solid : \/ code[i].t # "code"
                                        \/ ~code[i].wellformed
                 THEN [tree |-> Module(<<>>), exc |-> SyntaxError]
                 ELSE [tree |-> Module(Bodies(code, 1)), exc |-> NoExc]

\* ------------------------------------------------------------------------
\* The stages of agents/validator.py
\* ------------------------------------------------------------------------
IndexError == <<"IndexError", "pop from empty list">>

\* the language tags the pattern ```(?:python|py|Python) accepts
FenceTags == {"python", "py", "Python"}

RECURSIVE findall(_, _)
\* re.findall(r"```(?:python|py|Python)\s?(.*?)```", code, re.DOTALL) from
\* token p on: the leftmost fence marker that is followed by an accepted tag
\* and, later, by another fence marker, opens a match; \s? takes one
\* whitespace character when there is one; the group runs to the next fence
\* marker; the scan goes on after it
findall(code, p) ==
    LET opens == {i \in p..(Len(code) - 2) :
                     /\ code[i].t = "fence"
                     /\ code[i + 1].t = "word"
                     /\ code[i + 1].w \in FenceTags
                     /\ \E j \in (i + 2)..Len(code) : code[j].t = "fence"}
    IN  IF opens = {} THEN <<>>
        ELSE LET i == CHOOSE k \in opens : \A l \in opens : k <= l
                 close == CHOOSE j \in (i + 2)..Len(code) :
                              /\ code[j].t = "fence"
                              /\ \A l \in (i + 2)..(j - 1) : code[l].t # "fence"
                 start == IF code[i + 2].t = "ws" THEN i + 3 ELSE i + 2
             IN  <<SubSeq(code, start, close - 1)>> \o findall(code, close + 1)

\* mutant: text without a fenced region is taken to be code as a whole
extract_python_code_fallback(code) ==
    LET python_block == findall(code, 1)
    IN  IF python_block = <<>>
        THEN [result |-> code, exc |-> NoExc]
        ELSE [result |-> Last(python_block), exc |-> NoExc]

\* [result, exc]: python_block.pop() of the list of matches
extract_python_code(code) ==
    LET python_block == findall(code, 1)
    IN  IF python_block = <<>>
        THEN [result |-> <<>>, exc |-> IndexError]
        ELSE [result |-> Last(python_block), exc |-> NoExc]

\* mutant: a text that does not parse is let through as the empty module
check_safe_unparsed(code) == visit(parse(code).tree)

\* the exception check_safe raises, NoExc when it returns True
check_safe(code) ==
    LET parsed == parse(code)
    IN  IF parsed.exc # NoExc
        THEN UnsafeCodeError("Syntax error", <<>>)
        ELSE visit(parsed.tree)

\* compile(code, "<string>", "exec"): beyond what ast.parse rejects, a return
\* outside a function is a SyntaxError
validate_compiles(code) ==
    LET parsed == parse(code)
    IN  IF \/ parsed.exc # NoExc
           \/ \E i \in 1..Len(parsed.tree.body) : parsed.tree.body[i].kind = "Return"
        THEN UnsafeCodeError("Code failed to compile", <<>>)
        ELSE NoExc

\* the repair prompt: the code in a python fence, then the linter's output
get_ruff_fix_prompt(code, ruff_output) ==
    <<Prose("You previously generated this PySpark code:"), WS("\n"),
      FENCE, Word("python"), WS("\n")>>
    \o code
    \o <<WS("\n"), FENCE, WS("\n"),
         Prose("Ruff reported the following issues:"), WS("\n"),
         Prose(ruff_output), WS("\n"),
         Prose("Please fix ALL ruff issues."), WS("\n"),
         Prose("Return only the corrected Python code inside a"),
         FENCE, Word("python"), Prose("fenced block with no explanation.")>>

\* what the ruff process exits with and prints for the file written from code
RuffProcess(code) ==
    LET src == {i \in 1..Len(code) : code[i].t = "code"}
    IN  IF src = {} THEN [returncode |-> 0, stdout |-> ""]
        ELSE code[CHOOSE i \in src : \A j \in src : i <= j].ruff

\* mutant: the captured output is returned on a pass too
run_ruff_lint_stdout(code) ==
    LET process == RuffProcess(code)
    IN  <<process.returncode = 0, process.stdout>>

\* <<status, diagnostics>>
run_ruff_lint(code) ==
    LET process == RuffProcess(code)
        diagnostics == process.stdout
    IN  IF process.returncode # 0 THEN <<FALSE, diagnostics>> ELSE <<TRUE, "">>

\* mutant: the read check comes first
validate_spark_usage_read_first(code) ==
    IF ~(Occurs("read.", code) \/ Occurs(".read.", code))
    THEN UnsafeCodeError("Saprk job is missing Dataframe reading operations", <<>>)
    ELSE IF ~Occurs("SparkSession", code)
         THEN UnsafeCodeError("Missing SparkSession -- not a valid Spark Job.", <<>>)
         ELSE NoExc

\* the exception validate_spark_usage raises, NoExc when it returns True
validate_spark_usage(code) ==
    IF ~Occurs("SparkSession", code)
    THEN UnsafeCodeError("Missing SparkSession -- not a valid Spark Job.", <<>>)
    ELSE IF ~(Occurs("read.", code) \/ Occurs(".read.", code))
         THEN UnsafeCodeError("Saprk job is missing Dataframe reading operations", <<>>)
         ELSE NoExc

\* ------------------------------------------------------------------------
\* The Oracle client of agents/code_generator.py
\* ------------------------------------------------------------------------
TypeError == <<"TypeError", "query_ollama() missing 1 required positional argument">>
OllamaError == <<"Exception", "Ollama error">>
JSONDecodeError == <<"JSONDecodeError">>

\* the parameters of def query_ollama(prompt, model)
query_ollama_params == <<"prompt", "model">>

\* mutant: the model parameter has a default, one argument is enough
query_ollama_bind_defaulted(args) ==
    IF Len(args) \in {1, 2} THEN NoExc ELSE TypeError

\* binding the positional arguments of a call to the parameters
query_ollama_bind(args) ==
    IF Len(args) = Len(query_ollama_params) THEN NoExc ELSE TypeError

\* the body of query_ollama on the service's reply.  reply.status_code; reply.
\* body: "json" one JSON object with the text under "response", "ndjson"
\* line-delimited JSON objects, "garbage" neither; reply.response: the text.
\* [result, exc]
query_ollama_body(reply) ==
    IF reply.status_code # 200
    THEN [result |-> <<>>, exc |-> OllamaError]
    ELSE IF reply.body = "json"
         \* data.get(response, ""): the key is the response object, never
         \* present, so the default "" is returned
         THEN [result |-> <<>>, exc |-> NoExc]
         ELSE IF reply.body = "ndjson"
              THEN [result |-> reply.response, exc |-> NoExc]
              ELSE [result |-> <<>>, exc |-> JSONDecodeError]

\* ------------------------------------------------------------------------
\* Inputs: generated programs
\* ------------------------------------------------------------------------
NameIds == {"os", "importlib", "eval", "__builtins__", "spark"}
Literals == {Constant("str", "os"), Constant("str", "eval"),
             Constant("str", "system"), Constant("bytes", "os")}
AttrNames == {"system", "read"}
ArgLists == {<<>>, <<Constant("str", "os")>>}

Atoms == {Name(n) : n \in NameIds}

RECURSIVE Nested(_)
\* attribute accesses and calls nested exactly d deep over a bare name
Nested(d) ==
    IF d = 0 THEN Atoms
    ELSE LET inner == Nested(d - 1)
         IN  {Attribute(e, a) : e \in inner, a \in AttrNames}
             \cup {Call(e, args) : e \in inner, args \in ArgLists}

RECURSIVE ExprsUpTo(_)
\* the expressions nested at most d deep
ExprsUpTo(d) == Literals \cup UNION {Nested(k) : k \in 0..d}

ModuleNames == {<<"os">>, <<"os", "path">>, <<"pyspark">>}

ImportStmts ==
    {Import(<<alias(m, "")>>) : m \in ModuleNames}
    \cup {Import(<<alias(<<"os">>, "x")>>),
          Import(<<alias(<<"pyspark">>, ""), alias(<<"os">>, "")>>)}
    \cup {ImportFrom(m, <<alias(<<"y">>, "")>>, 0) : m \in ModuleNames}
    \cup {ImportFrom(<<"os">>, <<alias(<<"y">>, "")>>, 1),
          ImportFrom(<<>>, <<alias(<<"os">>, "")>>, 1)}

\* the statements whose expressions nest at most d deep
StmtsUpTo(d) == {Expr(e) : e \in ExprsUpTo(d)} \cup ImportStmts \cup {Return}

\* the programs of n statements and of size at most MaxSize, an attribute
\* access or a call fitting in every statement
ProgramsOfLen(n) == [1..n -> StmtsUpTo(MaxSize - n)]

\* ------------------------------------------------------------------------
\* Inputs: source texts, artifacts, the Oracle service
\* ------------------------------------------------------------------------
RuffClean == [returncode |-> 0, stdout |-> ""]
RuffChatty == [returncode |-> 0, stdout |-> "All checks passed!"]
RuffFindings == [returncode |-> 1, stdout |-> "F401 imported but unused"]
RuffCrash == [returncode |-> 2, stdout |-> ""]
RuffResults == {RuffClean, RuffChatty, RuffFindings, RuffCrash}

\* the substrings of the domain check a source text may hold
MarkerSets == {{}, {"SparkSession"}, {"read."}, {"SparkSession", "read."},
               {"SparkSession", "read.", ".read."}}
SparkMarkers == {"SparkSession", "read.", ".read."}

\* spark.read()
SparkRead == Expr(Call(Attribute(Name("spark"), "read"), <<>>))
\* import os / os.system("rm -rf /")
ImportOs == Import(<<alias(<<"os">>, "")>>)
OsSystem == Expr(Call(Attribute(Name("os"), "system"), <<Constant("str", "rm -rf /")>>))

\* the source texts the pipeline is run on with every wrapping: a safe job
\* with every marker set and linter result, an unsafe one, one that does not
\* compile, one that does not parse
CoreSources ==
    {Source(TRUE, <<SparkRead>>, m, r) : m \in MarkerSets, r \in RuffResults}
    \cup {Source(TRUE, b, {"SparkSession", "read."}, r) :
              b \in {<<ImportOs, OsSystem>>, <<SparkRead, Return>>},
              r \in {RuffClean, RuffFindings}}
    \cup {Source(FALSE, <<>>, {"SparkSession", "read."}, RuffFindings)}

\* a valid, safe, lint-clean Spark job
GoodSource == Source(TRUE, <<SparkRead>>, SparkMarkers, RuffClean)

Tags == {"python", "py", "Python", "PYTHON", "PY", "Py", "pYthon", "json"}

Fenced(tag, src) == <<FENCE, Word(tag), WS("\n"), src, WS("\n"), FENCE>>

\* the wrappings of a source text src in a generator response
Wrappings(src) ==
    {<<Prose("Here is the job.")>> \o Fenced(tag, src) : tag \in Tags}
    \cup {Fenced("python", src) \o <<Prose("It reads a CSV file.")>>,
          \* no fence at all
          <<Prose("I cannot help with that."), WS("\n"), src>>,
          \* a fence without a language tag
          <<FENCE, WS("\n"), src, WS("\n"), FENCE>>,
          \* a fence that is never closed
          <<FENCE, Word("python"), WS("\n"), src>>,
          \* no whitespace, and two spaces, after the tag
          <<FENCE, Word("python"), src, FENCE>>,
          <<FENCE, Word("python"), WS(" "), WS(" "), src, FENCE>>,
          \* two regions
          Fenced("python", GoodSource) \o <<Prose("Corrected:")>> \o Fenced("py", src),
          Fenced("python", src) \o <<Prose("Before it was:")>>
              \o Fenced("Python", GoodSource),
          \* an empty region
          <<src, FENCE, Word("python"), FENCE>>}

\* a program in the plain wrapping
Plain(program) ==
    <<FENCE, Word("python"), WS("\n"),
      Source(TRUE, program, {"SparkSession", "read."}, RuffClean), FENCE>>

\* what the Oracle service answers a repair request with
OracleReplies ==
    {[status_code |-> 200, body |-> b, response |-> Fenced("python", src)] :
         b \in {"json", "ndjson"},
         src \in {GoodSource, Source(TRUE, <<SparkRead>>, SparkMarkers, RuffFindings)}}
    \cup {[status_code |-> 200, body |-> "garbage", response |-> <<>>],
          [status_code |-> 500, body |-> "json", response |-> <<>>]}

HealthyOracle ==
    [status_code |-> 200, body |-> "ndjson", response |-> Fenced("python", GoodSource)]

\* ------------------------------------------------------------------------
\* State
\* ------------------------------------------------------------------------
VARIABLES
    pc,           \* where validate_generated_code stands
    code,         \* its argument, the artifact
    python_code,  \* the extracted source
    lint,         \* <<status, diagnostics>> of this attempt, <<>> before the linter ran
    new_prompt,   \* the repair prompt built last
    result,       \* what the original caller gets: a return value or an exception
    depth,        \* frames of validate_generated_code below the original call
    stages,       \* the stages run in this attempt, in order
    ruff_runs,    \* runs of the ruff process so far
    sent,         \* the prompts posted to the Oracle service so far
    oracle        \* how the Oracle service answers

vars == <<pc, code, python_code, lint, new_prompt, result, depth, stages,
          ruff_runs, sent, oracle>>

Pending == <<"pending">>
ReturnTrue == <<"return", "True">>
ReturnNone == <<"return", "None">>

\* the locals unset, nothing run yet
Fresh ==
    /\ pc = "extract_python_code"
    /\ python_code = <<>>
    /\ lint = <<>>
    /\ new_prompt = <<>>
    /\ result = Pending
    /\ depth = 0
    /\ stages = <<>>
    /\ ruff_runs = 0
    /\ sent = <<>>

\* every wrapping of the core sources, with every Oracle
CoreInit ==
    /\ \E src \in CoreSources : code \in Wrappings(src)
    /\ oracle \in OracleReplies
    /\ Fresh

\* every generated program in the plain wrapping
ProgramInit ==
    /\ \E n \in 0..(MaxSize - 1) : \E program \in ProgramsOfLen(n) : code = Plain(program)
    /\ oracle = HealthyOracle
    /\ Fresh

Init == CoreInit \/ ProgramInit

\* an exception leaves every frame: the original caller gets it
Raise(exc) ==
    /\ result' = exc
    /\ pc' = "done"

\* python_code = extract_python_code(code)
ExtractPythonCode ==
    /\ pc = "extract_python_code"
    /\ LET r == extract_python_code(code)
       IN  /\ stages' = Append(stages, "extract_python_code")
           /\ IF r.exc # NoExc
              THEN Raise(r.exc) /\ UNCHANGED python_code
              ELSE /\ python_code' = r.result
                   /\ pc' = "check_safe"
                   /\ UNCHANGED result
    /\ UNCHANGED <<code, lint, new_prompt, depth, ruff_runs, sent, oracle>>

\* mutant: the exception of check_safe is swallowed
CheckSafe_swallowed ==
    /\ pc = "check_safe"
    /\ stages' = Append(stages, "check_safe")
    /\ pc' = "validate_compiles"
    /\ UNCHANGED <<code, python_code, lint, new_prompt, result, depth, ruff_runs,
                   sent, oracle>>

\* check_safe_result = check_safe(python_code)
CheckSafe ==
    /\ pc = "check_safe"
    /\ LET exc == check_safe(python_code)
       IN  /\ stages' = Append(stages, "check_safe")
           /\ IF exc # NoExc
              THEN Raise(exc)
              ELSE pc' = "validate_compiles" /\ UNCHANGED result
    /\ UNCHANGED <<code, python_code, lint, new_prompt, depth, ruff_runs, sent, oracle>>

\* compile_check_result = validate_compiles(python_code)
ValidateCompiles ==
    /\ pc = "validate_compiles"
    /\ LET exc == validate_compiles(python_code)
       IN  /\ stages' = Append(stages, "validate_compiles")
           /\ IF exc # NoExc
              THEN Raise(exc)
              ELSE pc' = "run_ruff_lint" /\ UNCHANGED result
    /\ UNCHANGED <<code, python_code, lint, new_prompt, depth, ruff_runs, sent, oracle>>

\* mutant: the linter does not wait for check_safe and validate_compiles
RunRuffLint_early ==
    /\ pc \in {"check_safe", "run_ruff_lint"}
    /\ lint' = run_ruff_lint(python_code)
    /\ ruff_runs' = ruff_runs + 1
    /\ stages' = Append(stages, "run_ruff_lint")
    /\ pc' = "linted"
    /\ UNCHANGED <<code, python_code, new_prompt, result, depth, sent, oracle>>

\* status, diagnostics = run_ruff_lint(python_code)
RunRuffLint ==
    /\ pc = "run_ruff_lint"
    /\ lint' = run_ruff_lint(python_code)
    /\ ruff_runs' = ruff_runs + 1
    /\ stages' = Append(stages, "run_ruff_lint")
    /\ pc' = "linted"
    /\ UNCHANGED <<code, python_code, new_prompt, result, depth, sent, oracle>>

\* if status: return True.  The frames above, if any, drop the value of the
\* recursive call and fall off the end of the function: they return None.
Accept ==
    /\ pc = "linted"
    /\ lint[1]
    /\ result' = IF depth = 0 THEN ReturnTrue ELSE ReturnNone
    /\ pc' = "done"
    /\ UNCHANGED <<code, python_code, lint, new_prompt, depth, stages, ruff_runs,
                   sent, oracle>>

\* else: new_prompt = get_ruff_fix_prompt(python_code, diagnostics);
\* llm_result = query_ollama(new_prompt); validate_generated_code(llm_result)
Repair ==
    /\ pc = "linted"
    /\ ~lint[1]
    /\ depth < MaxRounds
    /\ LET prompt == get_ruff_fix_prompt(python_code, lint[2])
           bound == query_ollama_bind(<<prompt>>)
           r == query_ollama_body(oracle)
       IN  IF bound # NoExc
           THEN /\ Raise(bound)
                /\ new_prompt' = prompt
                /\ UNCHANGED <<code, python_code, lint, depth, stages, sent>>
           ELSE /\ sent' = Append(sent, prompt)
                /\ IF r.exc # NoExc
                   THEN /\ Raise(r.exc)
                        /\ new_prompt' = prompt
                        /\ UNCHANGED <<code, python_code, lint, depth, stages>>
                   \* the recursive call: a new frame, its locals unset
                   ELSE /\ code' = r.result
                        /\ depth' = depth + 1
                        /\ pc' = "extract_python_code"
                        /\ python_code' = <<>>
                        /\ lint' = <<>>
                        /\ new_prompt' = <<>>
                        /\ stages' = <<>>
                        /\ UNCHANGED result
    /\ UNCHANGED <<ruff_runs, oracle>>

Next ==
    \/ ExtractPythonCode
    \/ CheckSafe
    \/ ValidateCompiles
    \/ RunRuffLint
    \/ Accept
    \/ Repair

Spec == Init /\ [][Next]_vars

\* every call returns: the interpreter keeps running the function
FairSpec == CoreInit /\ [][Next]_vars /\ WF_vars(Next)

\* ------------------------------------------------------------------------
\* The domain check called by itself: validate_spark_usage(code)
\* ------------------------------------------------------------------------
SparkInit ==
    /\ \E src \in CoreSources : code \in Wrappings(src) \cup {<<src>>}
    /\ oracle = HealthyOracle
    /\ pc = "validate_spark_usage"
    /\ python_code = <<>>
    /\ lint = <<>>
    /\ new_prompt = <<>>
    /\ result = Pending
    /\ depth = 0
    /\ stages = <<>>
    /\ ruff_runs = 0
    /\ sent = <<>>

ValidateSparkUsage ==
    /\ pc = "validate_spark_usage"
    /\ LET exc == validate_spark_usage(code)
       IN  /\ stages' = Append(stages, "validate_spark_usage")
           /\ IF exc # NoExc
              THEN Raise(exc)
              ELSE result' = ReturnTrue /\ pc' = "done"
    /\ UNCHANGED <<code, python_code, lint, new_prompt, depth, ruff_runs, sent, oracle>>

SparkSpec == SparkInit /\ [][ValidateSparkUsage]_vars

\* ------------------------------------------------------------------------
\* Vocabulary of the properties
\* ------------------------------------------------------------------------
RECURSIVE PreOrder(_)
RECURSIVE PreOrderFrom(_, _)
\* the nodes of a tree, parents before children, children left to right
PreOrder(node) == <<node>> \o PreOrderFrom(Children(node), 1)
PreOrderFrom(children, i) ==
    IF i > Len(children) THEN <<>>
    ELSE PreOrder(children[i]) \o PreOrderFrom(children, i + 1)

\* the attempt under way: what is extracted from the artifact and its tree
Extracted == extract_python_code(code)
HasSource == Extracted.exc = NoExc
Parsed == parse(Extracted.result)
HasTree == HasSource /\ Parsed.exc = NoExc
TreeNodes == PreOrder(Parsed.tree)

\* the node kinds the checker has a rule for
RuledKinds == {"Import", "ImportFrom", "Name", "Attribute", "Call", "Constant"}
\* the first node of the traversal that a rule applies to
FirstRuled ==
    LET nodes == TreeNodes
    IN  nodes[CHOOSE i \in 1..Len(nodes) :
                  /\ nodes[i].kind \in RuledKinds
                  /\ \A j \in 1..(i - 1) : nodes[j].kind \notin RuledKinds]

StageRan(stage) == \E i \in 1..Len(stages) : stages[i] = stage
Rejected == pc = "done" /\ result \notin {ReturnTrue, ReturnNone}
RejectedUnsafe == pc = "done" /\ result[1] = "UnsafeCodeError"
\* in this attempt the linter has not run
NoLint == ~StageRan("run_ruff_lint") /\ lint = <<>> /\ ruff_runs = depth
\* for this attempt no repair prompt was built and nothing was posted
NoRepair == new_prompt = <<>> /\ Len(sent) = depth

\* ------------------------------------------------------------------------
\* The pipeline: rejection, acceptance, repair
\* ------------------------------------------------------------------------
\* the extracted code of the attempt under way is rejected by check_safe or
\* by validate_compiles
FailsSyntaxOrSafety ==
    /\ HasSource
    /\ \/ check_safe(Extracted.result) # NoExc
       \/ validate_compiles(Extracted.result) # NoExc

\* C1: an artifact whose extracted code fails the syntax check or the safety
\* check never gets past the checks: the request ends with UnsafeCodeError
\* raised to the caller, the linter is not run on it, no repair prompt is
\* built and nothing is posted to the Oracle for it.
C1_UnsafeNeverRepaired ==
    FailsSyntaxOrSafety =>
        /\ pc \in {"extract_python_code", "check_safe", "validate_compiles", "done"}
        /\ NoLint
        /\ NoRepair
        /\ pc = "done" => RejectedUnsafe

C1_Witness ==
    /\ pc = "done"
    /\ HasSource
    /\ check_safe(Extracted.result) # NoExc
    /\ result = check_safe(Extracted.result)
    /\ sent = <<>>

\* the extracted code passes check_safe and validate_compiles but not the
\* domain contract of validate_spark_usage
FailsDomainOnly ==
    /\ HasSource
    /\ check_safe(Extracted.result) = NoExc
    /\ validate_compiles(Extracted.result) = NoExc
    /\ validate_spark_usage(Extracted.result) # NoExc

\* C2: an artifact whose code passes the syntax and safety checks but fails
\* the domain contract is rejected: it is not linted, not sent for repair and
\* not accepted.
C2_DomainFailureRejected ==
    FailsDomainOnly =>
        /\ NoLint
        /\ NoRepair
        /\ result # ReturnTrue
        /\ pc = "done" => Rejected

\* the Oracle answers a repair request with an artifact whose code is valid,
\* safe and lint-clean
OracleRepairs ==
    /\ oracle.status_code = 200
    /\ oracle.body # "garbage"
    /\ LET e == extract_python_code(oracle.response)
       IN  /\ e.exc = NoExc
           /\ check_safe(e.result) = NoExc
           /\ validate_compiles(e.result) = NoExc
           /\ run_ruff_lint(e.result)[1]

\* C3: a lint pass ends the pipeline with True returned to the original
\* caller, on the first artifact and on a repaired one: when the code reaches
\* the linter and the Oracle repairs what the linter finds (scenario B), the
\* original caller gets True.
C3_LintPassAccepted ==
    /\ (pc = "done" /\ lint # <<>> /\ lint[1]) => result = ReturnTrue
    /\ (pc = "done" /\ ruff_runs > 0 /\ OracleRepairs) => result = ReturnTrue

Embeds(prompt, text) ==
    \E i \in 1..(Len(prompt) - Len(text) + 1) :
        SubSeq(prompt, i, i + Len(text) - 1) = text

\* C5: an attempt whose lint failed has exactly one repair request posted to
\* the Oracle, with the attempt's code and the linter's output in the prompt
\* as they are; the request ends in that attempt only if the Oracle fails.
C5_OneRepairRequest ==
    (pc = "done" /\ lint # <<>> /\ ~lint[1]) =>
        /\ Len(sent) = depth + 1
        /\ Embeds(Last(sent), python_code)
        /\ Embeds(Last(sent), <<Prose(lint[2])>>)
        /\ query_ollama_body(oracle).exc # NoExc

\* no two fence markers: nothing is fenced
NoFencedRegion(text) ==
    ~\E i, j \in 1..Len(text) : i < j /\ text[i].t = "fence" /\ text[j].t = "fence"

\* C10: an artifact without a fenced code region fails extraction: the
\* request ends with the extraction's error (IndexError) raised to the caller,
\* without a lint run and without a repair request.
C10_NoFenceRejected ==
    NoFencedRegion(code) =>
        /\ pc \in {"extract_python_code", "done"}
        /\ NoLint
        /\ NoRepair
        /\ pc = "done" => result = IndexError

C10_Witness == pc = "done" /\ NoFencedRegion(code) /\ result = IndexError /\ code # <<>>

\* ------------------------------------------------------------------------
\* The safety policy
\* ------------------------------------------------------------------------
\* the code is stopped by the safety check: it gets no further, and the
\* request ends with UnsafeCodeError
StoppedBySafetyCheck ==
    /\ pc \in {"extract_python_code", "check_safe", "done"}
    /\ NoLint
    /\ NoRepair
    /\ pc = "done" => RejectedUnsafe

\* the names the policy forbids as bare names and as modules
ClaimedNames ==
    {"eval", "exec", "open", "compile", "__import__", "globals", "locals", "vars"}
ClaimedModules ==
    {"os", "sys", "subprocess", "importlib", "pathlib", "shutil", "socket",
     "requests", "http", "urllib", "ftplib", "paramiko", "psutil"}
ClaimedAttrs == {"system", "popen", "run", "remove", "unlink"}

InTree(P(_)) == HasTree /\ LET nodes == TreeNodes IN \E i \in 1..Len(nodes) : P(nodes[i])

\* import m, import m.sub, import m as x; from m import y, from m.sub import
\* y; a relative from-import of m or of a name out of m, m forbidden
IsForbiddenImport(n) ==
    \/ /\ n.kind = "Import"
       /\ \E i \in 1..Len(n.names) : n.names[i].name[1] \in ClaimedModules
    \/ /\ n.kind = "ImportFrom"
       /\ \/ n.module # <<>> /\ n.module[1] \in ClaimedModules
          \/ /\ n.level > 0
             /\ \E i \in 1..Len(n.names) : n.names[i].name[1] \in ClaimedModules

ImportMessages == {"Import of forbidden module", "Import from forbidden module"}

\* C6: code that imports a forbidden module, directly or via from, relative
\* forms included, is stopped by the safety check before the linter or the
\* Oracle is used, with the forbidden-import violation when the import is the
\* first thing the traversal meets.
C6_ForbiddenImportRaises ==
    InTree(IsForbiddenImport) =>
        /\ StoppedBySafetyCheck
        /\ (pc = "done" /\ IsForbiddenImport(FirstRuled)) => result[2] \in ImportMessages

\* an attribute access one side of which matches the policy, whatever the
\* receiver is
MatchesAttrPolicy(n) ==
    /\ n.kind = "Attribute"
    /\ \/ n.value.kind = "Name" /\ n.value.id \in ClaimedModules
       \/ n.attr \in ClaimedAttrs

\* the same, the receiver being a bare name
MatchesNamedAttrPolicy(n) == MatchesAttrPolicy(n) /\ n.value.kind = "Name"

AttrMessages ==
    {"Forbidden module attribute access", "Forbidden attribute/function access",
     "Dynamic imports via importlib are forbidden", "Forbidden module call",
     "Forbidden attribute/function call"}

\* C7 as claimed: code with an attribute access or attribute call one side of
\* which matches the policy, whatever expression the receiver is, is stopped
\* by the safety check, with the attribute/call violation when that access is
\* the first thing the traversal meets.
C7_AnyReceiverRaises ==
    InTree(MatchesAttrPolicy) =>
        /\ StoppedBySafetyCheck
        /\ pc = "done" =>
               LET first == FirstRuled
                   n == IF first.kind = "Call" THEN first.func ELSE first
               IN  MatchesAttrPolicy(n) => result[2] \in AttrMessages

\* C7 amended: the same for the accesses whose receiver is a bare name.
C7_NamedReceiverRaises ==
    InTree(MatchesNamedAttrPolicy) =>
        /\ StoppedBySafetyCheck
        /\ pc = "done" =>
               LET first == FirstRuled
                   n == IF first.kind = "Call" THEN first.func ELSE first
               IN  MatchesNamedAttrPolicy(n) => result[2] \in AttrMessages

\* a call of spark.system was rejected
C7_Witness ==
    /\ pc = "done"
    /\ HasTree
    /\ FirstRuled.kind = "Call"
    /\ MatchesNamedAttrPolicy(FirstRuled.func)
    /\ FirstRuled.func.value.id \notin ClaimedModules
    /\ result[2] = "Forbidden attribute/function call"

IsForbiddenName(n) ==
    n.kind = "Name" /\ n.id \in ClaimedNames \cup {"__builtins__"}

\* C8: code with a reference to a forbidden bare name or to __builtins__
\* anywhere in its tree is stopped by the safety check and so never accepted,
\* with the forbidden-name (builtins-access) violation when that name is the
\* first thing the traversal meets.
C8_ForbiddenNameRaises ==
    InTree(IsForbiddenName) =>
        /\ StoppedBySafetyCheck
        /\ result \notin {ReturnTrue, ReturnNone}
        /\ (pc = "done" /\ IsForbiddenName(FirstRuled)) =>
               result[2] = IF FirstRuled.id = "__builtins__"
                           THEN "Access to __builtins__ is forbidden"
                           ELSE "Forbidden name"

\* a forbidden name below the top of the tree was rejected
C8_Witness ==
    /\ pc = "done"
    /\ InTree(IsForbiddenName)
    /\ ~IsForbiddenName(FirstRuled)
    /\ RejectedUnsafe

IsForbiddenLiteral(n) ==
    n.kind = "Constant" /\ n.type = "str" /\ n.value \in ClaimedNames \cup ClaimedModules

\* C9: a literal node is rejected with the forbidden-literal violation exactly
\* when it is a string literal equal to a forbidden name or a forbidden
\* module; code holding such a literal anywhere is stopped by the safety check;
\* and the violation is raised for no code without one.
C9_ForbiddenLiteralExactly ==
    HasTree =>
        /\ LET nodes == TreeNodes
           IN  \A i \in 1..Len(nodes) :
                   nodes[i].kind = "Constant" =>
                       (IsForbiddenLiteral(nodes[i])
                            <=> visit(nodes[i])
                                  = UnsafeCodeError("Forbidden string literal",
                                                    <<nodes[i].value>>))
        /\ InTree(IsForbiddenLiteral) => StoppedBySafetyCheck
        /\ (pc = "done" /\ InTree(IsForbiddenLiteral) /\ IsForbiddenLiteral(FirstRuled))
               => result[2] = "Forbidden string literal"
        /\ (RejectedUnsafe /\ result[2] = "Forbidden string literal")
               => InTree(IsForbiddenLiteral)

\* a forbidden literal passed as an argument, never run, was rejected for it
C9_Witness ==
    /\ pc = "done"
    /\ InTree(IsForbiddenLiteral)
    /\ ~IsForbiddenLiteral(FirstRuled)
    /\ RejectedUnsafe
    /\ result[2] = "Forbidden string literal"

\* ------------------------------------------------------------------------
\* Extraction
\* ------------------------------------------------------------------------
RECURSIVE FencedRegions(_, _)
\* the contents of the fenced regions of a text from token p on, in order,
\* as they stand between the language tag and the closing fence marker
FencedRegions(text, p) ==
    LET opens == {i \in p..(Len(text) - 2) :
                     /\ text[i].t = "fence"
                     /\ text[i + 1].t = "word"
                     /\ text[i + 1].w \in FenceTags
                     /\ \E j \in (i + 2)..Len(text) : text[j].t = "fence"}
    IN  IF opens = {} THEN <<>>
        ELSE LET i == CHOOSE k \in opens : \A l \in opens : k <= l
                 close == CHOOSE j \in (i + 2)..Len(text) :
                              /\ text[j].t = "fence"
                              /\ \A l \in (i + 2)..(j - 1) : text[l].t # "fence"
             IN  <<SubSeq(text, i + 2, close - 1)>> \o FencedRegions(text, close + 1)

RECURSIVE Trim(_)
\* text without its leading and trailing whitespace
Trim(text) ==
    IF text = <<>> THEN <<>>
    ELSE IF Head(text).t = "ws" THEN Trim(Tail(text))
    ELSE IF Last(text).t = "ws" THEN Trim(SubSeq(text, 1, Len(text) - 1))
    ELSE text

\* C11: from an artifact with one or more fenced code regions, what is
\* extracted is exactly the contents of the last region, trimmed of leading
\* and trailing whitespace.
C11_LastRegionTrimmed ==
    (pc # "extract_python_code" /\ FencedRegions(code, 1) # <<>>) =>
        python_code = Trim(Last(FencedRegions(code, 1)))

\* the artifacts with one fenced region, tagged tag, around src
TaggedArtifact(tag, src) == <<Prose("Here is the job.")>> \o Fenced(tag, src)
OtherCaseTags == {"PYTHON", "PY", "Py", "pYthon"}

\* C19: an artifact whose only fenced region is tagged PYTHON, PY, Py or
\* pYthon is extracted the same as one tagged python, and is not treated as
\* having no fenced region.
C19_TagCaseInsensitive ==
    \A tag \in OtherCaseTags : \A src \in CoreSources :
        code = TaggedArtifact(tag, src) =>
            /\ pc # "extract_python_code" =>
                   python_code = extract_python_code(TaggedArtifact("python", src)).result
            /\ result # IndexError

\* ------------------------------------------------------------------------
\* Errors
\* ------------------------------------------------------------------------
\* the Oracle service answers with a non-success status or with a body that
\* is not JSON
OracleFails == oracle.status_code # 200 \/ oracle.body = "garbage"

\* C12: when the lint of an attempt failed and the Oracle fails on the repair
\* request, the request ends with the Oracle's error raised to the caller and
\* is never accepted.
C12_OracleFailurePropagates ==
    (pc = "done" /\ lint # <<>> /\ ~lint[1] /\ OracleFails) =>
        /\ result = query_ollama_body(oracle).exc
        /\ result \notin {ReturnTrue, ReturnNone}

\* the kind of an exception: its class
KindOf(exc) == exc[1]

\* the extracted code of the attempt under way does not parse
Unparsable == HasSource /\ Parsed.exc # NoExc

PolicyMessages ==
    ImportMessages \cup AttrMessages
    \cup {"Forbidden name", "Access to __builtins__ is forbidden",
          "Forbidden string literal"}
DomainMessages ==
    {"Missing SparkSession -- not a valid Spark Job.",
     "Saprk job is missing Dataframe reading operations"}

PipelineOrder ==
    <<"extract_python_code", "check_safe", "validate_compiles", "run_ruff_lint">>

\* C14: within an attempt the stages run in their fixed order and stop at the
\* first that fails; the safety traversal runs only on a tree that parsed;
\* the linter runs only on code that passed extraction, the syntax check, the
\* safety check and the domain check.
C14_StagesInOrder ==
    /\ Len(stages) <= Len(PipelineOrder)
    /\ stages = SubSeq(PipelineOrder, 1, Len(stages))
    /\ (StageRan("check_safe") /\ Parsed.exc # NoExc) =>
           result = UnsafeCodeError("Syntax error", <<>>)
    /\ StageRan("run_ruff_lint") =>
           /\ HasSource
           /\ check_safe(python_code) = NoExc
           /\ validate_compiles(python_code) = NoExc
           /\ validate_spark_usage(python_code) = NoExc

C16_LintMapping ==
    lint # <<>> =>
        LET process == RuffProcess(python_code)
        IN  /\ process.returncode = 0 => lint = <<TRUE, "">>
            /\ process.returncode # 0 => lint = <<FALSE, process.stdout>>
            /\ lint[1] => lint[2] = ""
            /\ (pc = "done" /\ process.returncode # 0) =>
                   /\ new_prompt = get_ruff_fix_prompt(python_code, process.stdout)
                   /\ result \notin {ReturnTrue, ReturnNone}

\* ruff crashed without output: a fail with empty diagnostics, and the
\* repair prompt was built
C16_Witness ==
    /\ pc = "done"
    /\ RuffProcess(python_code) = RuffCrash
    /\ lint = <<FALSE, "">>
    /\ new_prompt # <<>>

\* ------------------------------------------------------------------------
\* Fail-fast traversal
\* ------------------------------------------------------------------------
\* the rule of node n itself raises: the visit of n ends otherwise than the
\* visit of its children alone (a rule is applied before the children are
\* visited, and its violation differs from every violation below it)
OwnViolation(n) == visit(n) # generic_visit(n)

\* scenario A: import os / os.system("rm -rf /")
ScenarioA == HasTree /\ Parsed.tree.body = <<ImportOs, OsSystem>>

\* C17: when code holds violations, the error raised is that of the first
\* violating node of the depth-first traversal; in scenario A it is the
\* forbidden import of os, and no repair attempt is made.
C17_FirstViolationRaised ==
    (pc = "done" /\ HasTree) =>
        LET nodes == TreeNodes
            violating == {i \in 1..Len(nodes) : OwnViolation(nodes[i])}
        IN  /\ violating # {} =>
                LET first == CHOOSE i \in violating : \A j \in violating : i <= j
                IN  /\ result = visit(nodes[first])
                    /\ NoLint
                    /\ NoRepair
            /\ ScenarioA =>
                /\ result = UnsafeCodeError("Import of forbidden module", <<"os">>)
                /\ NoRepair

\* scenario A, two violations, was rejected for the first, the import
C17_Witness ==
    /\ pc = "done"
    /\ ScenarioA
    /\ visit(OsSystem) # NoExc
    /\ result = UnsafeCodeError("Import of forbidden module", <<"os">>)
    /\ sent = <<>>

\* ------------------------------------------------------------------------
\* The domain check
\* ------------------------------------------------------------------------
\* C18: validate_spark_usage called on a text succeeds when the text holds
\* both SparkSession and read., and fails otherwise; the session check comes
\* first, so a text with neither fails with the missing-session error.
C18_DomainContract ==
    (pc = "done" /\ StageRan("validate_spark_usage")) =>
        /\ result = ReturnTrue
               <=> (Occurs("SparkSession", code) /\ Occurs("read.", code))
        /\ result # ReturnTrue => KindOf(result) = "UnsafeCodeError"
        /\ ~Occurs("SparkSession", code) =>
               result[2] = "Missing SparkSession -- not a valid Spark Job."
        /\ (Occurs("SparkSession", code) /\ ~Occurs("read.", code)) =>
               result[2] = "Saprk job is missing Dataframe reading operations"

\* a text with neither marker failed with the missing-session error
C18_Witness ==
    /\ pc = "done"
    /\ StageRan("validate_spark_usage")
    /\ ~Occurs("SparkSession", code)
    /\ ~Occurs("read.", code)
    /\ result[2] = "Missing SparkSession -- not a valid Spark Job."

====
